---- MODULE Spec2Model ----
(***************************************************************************)
(* A model of scripts/wifimon.py, a curses clone of wavemon: the module's  *)
(* import-time statements, main(), setup(), tear_down(), printl(),         *)
(* get_dashes() and refresh_window().                                      *)
(*                                                                         *)
(* Text is a sequence of one-character strings, so that formatting is      *)
(* computed and line lengths are known.  The curses window is a sequence   *)
(* of rows; a row is the stack of the writes still visible in it, the      *)
(* latest first: addstr() overwrites the cells it covers and leaves the    *)
(* rest of the row alone.  The terminal is taken to be wide enough for     *)
(* every line the program prints (no wrapping).                            *)
(*                                                                         *)
(* KeyboardInterrupt is asynchronous: it may be raised between any two     *)
(* statements of the loop in main(), refresh_window() included; a printl() *)
(* call is one step.                                                       *)
(***************************************************************************)
EXTENDS Integers, Sequences, FiniteSets, TLC

VARIABLES
    pc,         \* position of the process
    hasCurses,  \* environment: "import curses" succeeds
    hasWifi,    \* environment: hasattr(psutil, "wifi_ifaces")
    LINES,      \* environment: number of rows of the terminal
    startup,    \* interfaces psutil.wifi_ifaces() reported to main(), -1 before
    term,       \* curses library state: calls made and terminal modes
    lineno,     \* global lineno
    buf,        \* contents of the window win (rows 0..LINES-1 at 1..LINES)
    screen,     \* what the last refresh put on the physical screen
    pending,    \* statements the running refresh_window() call has left
    written,    \* addstr() calls made by the running cycle: <<y, line>>
    curSnap,    \* what the stats source answers in the running cycle
    startBuf,   \* buf when the running cycle began
    prevSnap,   \* curSnap of the last completed cycle
    prevLog,    \* written of the last completed cycle
    cycles,     \* completed cycles
    calls,      \* counts of getch / printl / win.refresh / tear_down calls
    stopCause,  \* what ended the loop: "none", "quit", "interrupt", or the error
    exc,        \* exception propagating out of main(), or "none"
    exitCode,   \* exit status of the process, -1 while it runs
    stderr,     \* message sys.exit() printed
    perc,       \* argument of a stand-alone get_dashes() call
    bar         \* its result

vars == <<pc, hasCurses, hasWifi, LINES, startup, term, lineno, buf, screen, pending,
          written, curSnap, startBuf, prevSnap, prevLog, cycles, calls,
          stopCause, exc, exitCode, stderr, perc, bar>>

\* Completed refresh cycles explored.
MaxCycles == 2

\* Terminal heights explored: too small for any interface, a common 24-row
\* terminal, and one that holds two interfaces.
TermHeights == {5, 24, 50}

\* Percentages of the stand-alone get_dashes() runs.
PercRange == 0..100

------------------------------------------------------------------------------
\* Text

Repeat(c, n) == [i \in 1..n |-> c]

DigitChar == <<"0", "1", "2", "3", "4", "5", "6", "7", "8", "9">>

RECURSIVE NatStr(_)
NatStr(n) == IF n < 10 THEN <<DigitChar[n + 1]>>
             ELSE NatStr(n \div 10) \o <<DigitChar[(n % 10) + 1]>>

\* "%s" % n for an int n
IntStr(n) == IF n < 0 THEN <<"-">> \o NatStr(-n) ELSE NatStr(n)

\* "%6s" % s
Pad6(s) == IF Len(s) >= 6 THEN s ELSE Repeat(" ", 6 - Len(s)) \o s

RECURSIVE Pad3(_)
Pad3(s) == IF Len(s) >= 3 THEN s ELSE Pad3(<<"0">> \o s)

\* '{0:,}'.format(n), n >= 0
RECURSIVE CommaStr(_)
CommaStr(n) == IF n < 1000 THEN NatStr(n)
               ELSE CommaStr(n \div 1000) \o <<",">> \o Pad3(NatStr(n % 1000))

\* Tenths of n / prefix, rounded half to even as '%.1f' rounds the (exact)
\* quotient of an integer below 2^53 by a power of two.
RoundTenths(n, prefix) ==
    LET q == (n * 10) \div prefix
        r == (n * 10) % prefix
    IN  IF 2 * r > prefix \/ (2 * r = prefix /\ q % 2 = 1) THEN q + 1 ELSE q

Symbols == <<<<"K">>, <<"M">>, <<"G">>>>

Prefix(i) == 2 ^ (10 * i)

\* psutil._common.bytes2human(n), for 0 <= n < 2^31 / 10
bytes2human(n) ==
    IF n < Prefix(1) THEN NatStr(n) \o <<".","0","B">>
    ELSE LET i == CHOOSE k \in 1..3 :
                      n >= Prefix(k) /\ (k = 3 \/ n < Prefix(k + 1))
             t == RoundTenths(n, Prefix(i))
         IN  NatStr(t \div 10) \o <<".">> \o NatStr(t % 10) \o Symbols[i]

------------------------------------------------------------------------------
\* Module-level data

AF_INET == 2
AF_INET6 == 10
AF_LINK == 17

af_map == [f \in {AF_INET, AF_INET6, AF_LINK} |->
              CASE f = AF_INET -> <<"I","P","v","4">>
                [] f = AF_INET6 -> <<"I","P","v","6">>
                [] f = AF_LINK -> <<"M","A","C">>]

\* af_map.get(family, family), then "%s" of it
FamilyLabel(family) ==
    IF family \in DOMAIN af_map THEN af_map[family] ELSE IntStr(family)

colors_map == [green |-> 35, red |-> 10, blue |-> 5]

ord_q == 113

\* What getch() can return under nodelay(1): -1 (no key), 'q', another key.
Keys == {-1, ord_q, 97}

------------------------------------------------------------------------------
\* printl() arguments and curses attributes

Line(text, color, bold, underline) ==
    [kind |-> "printl", text |-> text, color |-> color, bold |-> bold,
     underline |-> underline]

\* printl(line): color=None, bold=False, underline=False
Plain(text) == Line(text, "None", FALSE, FALSE)

\* print_title(line)
print_title(text) == Line(text, "blue", TRUE, TRUE)

\* flags as printl() builds them
Flags(l) ==
    [pair |-> IF l.color = "None" THEN 0 ELSE colors_map[l.color],
     bold |-> l.bold, underline |-> l.underline]

get_dashes_round(p) ==
    LET dashes == Repeat("=", (p * 4 + 5) \div 10)
    IN  <<dashes, Repeat(" ", 40 - Len(dashes))>>

get_dashes_intdiv(p) ==
    LET dashes == Repeat("=", (p \div 10) * 4)
    IN  <<dashes, Repeat(" ", 40 - Len(dashes))>>

\* get_dashes(perc): int(float(perc) / 10 * 4) truncates the exact value of
\* perc * 4 / 10 (perc >= 0); " " * n is empty for n <= 0.
get_dashes(p) ==
    LET dashes == Repeat("=", (p * 4) \div 10)
        n == 40 - Len(dashes)
    IN  <<dashes, Repeat(" ", IF n > 0 THEN n ELSE 0)>>

\* "green" if percent >= 50 else "red"
BarColor(p) == IF p >= 50 THEN "green" ELSE "red"

\* "    [%s%s]" % (dashes, empty_dashes), printed bold in the bar color
BarLine(p) ==
    LET d == get_dashes(p)
    IN  Line(<<" "," "," "," ","[">> \o d[1] \o d[2] \o <<"]">>, BarColor(p), TRUE, FALSE)

------------------------------------------------------------------------------
\* What the stats source answers in one cycle: psutil.wifi_ifaces() as a
\* sequence of interfaces in dict order, each with its entry of
\* psutil.net_io_counters(pernic=True) and of psutil.net_if_addrs(), which
\* may lack the interface (KeyError).

Addr(family, address) == [family |-> family, address |-> address]

Wlan0A ==
    [name |-> <<"w","l","a","n","0">>, proto |-> <<"I","E","E","E"," ","8","0","2",".","1","1">>, essid |-> <<"A","L","H","N">>,
     quality_percent |-> 64, signal |-> -65, signal_percent |-> 45,
     bssid |-> <<"6","8",":","D","4">>, mode |-> <<"m","a","n","a","g","e","d">>, freq |-> 2412, txpower |-> 22,
     power_save |-> TRUE, beacons |-> 0, discard_nwid |-> 0,
     discard_crypt |-> 0, discard_frag |-> 0, discard_retry |-> 135,
     discard_misc |-> 4086,
     hasIoc |-> TRUE, bytes_recv |-> 1234, bytes_sent |-> 1500000,
     hasAddrs |-> TRUE, addrs |-> <<Addr(AF_INET, <<"1","9","2",".","1","6","8",".","1",".","6">>)>>]

Wlan0B ==
    [Wlan0A EXCEPT !.quality_percent = 50, !.signal = -70,
                   !.signal_percent = 49, !.power_save = FALSE,
                   !.bytes_recv = 0, !.bytes_sent = 2048,
                   !.addrs = <<Addr(AF_INET6, <<"f","e","8","0",":",":","1">>),
                               Addr(AF_LINK, <<"4","8",":","4","5">>),
                               Addr(99, <<"x">>)>>]

Wlan1 ==
    [Wlan0A EXCEPT !.name = <<"w","l","a","n","1">>, !.quality_percent = 100,
                   !.signal = -30, !.signal_percent = 0, !.addrs = << >>]

Snapshots ==
    { << >>, <<Wlan0A>>, <<Wlan0B>>, <<Wlan0A, Wlan1>>,
      <<[Wlan0A EXCEPT !.hasIoc = FALSE]>>,
      <<[Wlan0B EXCEPT !.hasAddrs = FALSE]>> }

------------------------------------------------------------------------------
\* refresh_window()

KeyError == [kind |-> "KeyError"]
Refresh == [kind |-> "refresh"]

RECURSIVE AddrLines(_)
AddrLines(addrs) ==
    IF addrs = << >> THEN << >>
    ELSE <<Plain(<<" "," "," "," ">> \o FamilyLabel(Head(addrs).family) \o <<":"," ">>
                 \o Head(addrs).address)>> \o AddrLines(Tail(addrs))

\* The statements of one turn of the loop over the interfaces, in order.
IfaceOps(info) ==
    <<print_title(<<"I","n","t","e","r","f","a","c","e">>),
      Plain(<<" "," "," "," ">> \o info.name \o <<" ","(">> \o info.proto \o <<")">>),
      Plain(<<" "," "," "," ","S","S","I","D",":"," ">> \o info.essid),
      print_title(<<"L","e","v","e","l","s">>),
      Plain(<<" "," "," "," ","L","i","n","k"," ","q","u","a","l","i","t","y",":"," ">> \o IntStr(info.quality_percent) \o <<"%">>),
      BarLine(info.quality_percent),
      Plain(<<" "," "," "," ","S","i","g","n","a","l"," ","l","e","v","e","l",":"," ">> \o IntStr(info.signal) \o <<" ","d","B","m"," ","(">>
            \o IntStr(info.signal_percent) \o <<"%",")">>),
      BarLine(info.signal_percent),
      print_title(<<"S","t","a","t","i","s","t","i","c","s">>)>>
    \o (IF ~info.hasIoc THEN <<KeyError>> ELSE
    <<Plain(<<" "," "," "," ","R","X"," ","(","r","e","c","v",")",":"," ">> \o Pad6(bytes2human(info.bytes_recv)) \o <<" ","(">>
            \o Pad6(CommaStr(info.bytes_recv)) \o <<")">>),
      Plain(<<" "," "," "," ","T","X"," ","(","s","e","n","t",")",":"," ">> \o Pad6(bytes2human(info.bytes_sent)) \o <<" ","(">>
            \o Pad6(CommaStr(info.bytes_sent)) \o <<")">>),
      print_title(<<"I","n","f","o">>),
      Plain(<<" "," "," "," ","C","o","n","n","e","c","t","e","d"," ","t","o",":"," ">> \o info.bssid),
      Plain(<<" "," "," "," ","M","o","d","e",":"," ">> \o info.mode),
      Plain(<<" "," "," "," ","F","r","e","q",":"," ">> \o IntStr(info.freq) \o <<" ","M","H","z">>),
      Plain(<<" "," "," "," ","T","X","-","P","o","w","e","r",":"," ">> \o IntStr(info.txpower) \o <<" ","d","B","m">>),
      Plain(<<" "," "," "," ","P","o","w","e","r"," ","s","a","v","e",":"," ">>
            \o (IF info.power_save THEN <<"o","n">> ELSE <<"o","f","f">>)),
      Plain(<<" "," "," "," ","B","e","a","c","o","n","s",":"," ">> \o IntStr(info.beacons) \o <<","," ","N","w","i","d",":"," ">>
            \o IntStr(info.discard_nwid) \o <<","," ","C","r","y","p","t",":"," ">>
            \o IntStr(info.discard_crypt)),
      Plain(<<" "," "," "," ","F","r","a","g",":"," ">> \o IntStr(info.discard_frag) \o <<","," ","R","e","t","r","y",":"," ">>
            \o IntStr(info.discard_retry) \o <<","," ","M","i","s","c",":"," ">>
            \o IntStr(info.discard_misc)),
      print_title(<<"A","d","d","r","e","s","s","e","s"," ","(">> \o info.name \o <<")">>)>>
    \o (IF ~info.hasAddrs THEN <<KeyError>> ELSE AddrLines(info.addrs)))

RECURSIVE AllIfaceOps(_)
AllIfaceOps(snap) ==
    IF snap = << >> THEN << >>
    ELSE IfaceOps(Head(snap)) \o AllIfaceOps(Tail(snap))

refresh_window_norefresh(snap) == AllIfaceOps(snap) \o <<Plain(<< >>)>>

\* The statements a refresh_window() call executes, given what the stats
\* source answers; a KeyError ends the call where it is raised.
refresh_window(snap) == AllIfaceOps(snap) \o <<Plain(<< >>), Refresh>>

------------------------------------------------------------------------------
\* The curses window

EmptyBuf(n) == [r \in 1..n |-> << >>]

\* One row after addstr() wrote cell at column 0: the cells the text covers are
\* replaced, the cells right of it keep what earlier writes left there.
Overwrite(row, cell) ==
    IF Len(cell.text) = 0 THEN row
    ELSE <<cell>> \o SelectSeq(row, LAMBDA c : Len(c.text) > Len(cell.text))

\* win.addstr(y, 0, line, flags) raises curses.error when row y is not in
\* the window.
AddstrFails(y, height) == y < 0 \/ y >= height

Addstr(b, y, l) ==
    [b EXCEPT ![y + 1] = Overwrite(@, [text |-> l.text, flags |-> Flags(l)])]

NextLine_skip(l) == l + 2

\* lineno += 1
NextLine(l) == l + 1

ResetLineno_keep(l) == l

\* lineno = 0, in main() after refresh_window() returned
ResetLineno(l) == 0

------------------------------------------------------------------------------
\* main(): exceptions

HandledInMain_onlySystemExit(e) == e = "SystemExit"

HandledInMain_all(e) == e # "none"

\* except (KeyboardInterrupt, SystemExit): pass
HandledInMain(e) == e \in {"KeyboardInterrupt", "SystemExit"}

AfterTry_noFinally(e) ==
    IF e = "none" \/ HandledInMain(e) THEN "finally" ELSE "done"

\* finally: whatever ended the try block, the finally clause is next
AfterTry(e) == "finally"

NoIfaces_unchecked(snap) == FALSE

\* not psutil.wifi_ifaces()
NoIfaces(snap) == Len(snap) = 0

\* Exit status of the interpreter: 0 when main() returns, 1 when an
\* exception leaves it or sys.exit() is given a message.
ExitStatus(e) == IF e = "none" THEN 0 ELSE 1

------------------------------------------------------------------------------
\* State

env == <<hasCurses, hasWifi, LINES, startup>>
cycleVars == <<pending, written, curSnap, startBuf, prevSnap, prevLog, cycles>>
dashVars == <<perc, bar>>

InitCommon ==
    /\ startup = -1
    /\ term = [initscr |-> 0, endwin |-> 0, colors |-> FALSE,
               nodelay |-> FALSE, keypad |-> FALSE, cbreak |-> FALSE,
               echo |-> TRUE]
    /\ lineno = 0
    /\ buf = EmptyBuf(LINES)
    /\ screen = EmptyBuf(LINES)
    /\ pending = << >>
    /\ written = << >>
    /\ curSnap = << >>
    /\ startBuf = EmptyBuf(LINES)
    /\ prevSnap = << >>
    /\ prevLog = << >>
    /\ cycles = 0
    /\ calls = [getch |-> 0, printl |-> 0, refresh |-> 0, tear_down |-> 0]
    /\ stopCause = "none"
    /\ exc = "none"
    /\ exitCode = -1
    /\ stderr = << >>

Init ==
    /\ hasCurses \in BOOLEAN
    /\ hasWifi \in BOOLEAN
    /\ LINES \in TermHeights
    /\ InitCommon
    /\ pc = "import"
    /\ perc = 0
    /\ bar = << >>

\* sys.exit(msg)
SysExit(msg) ==
    /\ pc' = "done"
    /\ exitCode' = 1
    /\ stderr' = msg

\* The try block of main() ends: by break (e = "none") or by exception e.
LeaveLoop(e, cause) ==
    /\ pc' = AfterTry(e)
    /\ exc' = IF HandledInMain(e) THEN "none" ELSE e
    /\ stopCause' = cause
    /\ UNCHANGED <<exitCode, stderr>>

------------------------------------------------------------------------------
\* Import-time statements and the start of main()

\* try: import curses / except ImportError: sys.exit(...)
ImportCurses ==
    /\ pc = "import"
    /\ IF hasCurses
       THEN pc' = "initscr" /\ UNCHANGED <<exitCode, stderr>>
       ELSE SysExit(<<"p","l","a","t","f","o","r","m"," ","n","o","t"," ","s","u","p","p","o","r","t","e","d">>)
    /\ UNCHANGED <<env, term, lineno, buf, screen, cycleVars, calls,
                   stopCause, exc, dashVars>>

\* win = curses.initscr(); lineno = 0
Initscr ==
    /\ pc = "initscr"
    /\ term' = [term EXCEPT !.initscr = @ + 1]
    /\ lineno' = 0
    /\ pc' = "main"
    /\ UNCHANGED <<env, buf, screen, cycleVars, calls, stopCause, exc,
                   exitCode, stderr, dashVars>>

\* if not hasattr(psutil, "wifi_ifaces"): sys.exit(...)
MainHasattr ==
    /\ pc = "main"
    /\ IF hasWifi
       THEN pc' = "ifaces" /\ UNCHANGED <<exitCode, stderr>>
       ELSE SysExit(<<"p","l","a","t","f","o","r","m"," ","n","o","t"," ","s","u","p","p","o","r","t","e","d">>)
    /\ UNCHANGED <<env, term, lineno, buf, screen, cycleVars, calls,
                   stopCause, exc, dashVars>>

\* if not psutil.wifi_ifaces(): sys.exit(...)
MainIfaces ==
    /\ pc = "ifaces"
    /\ \E snap \in Snapshots :
          /\ startup' = Len(snap)
          /\ IF NoIfaces(snap)
             THEN SysExit(<<"n","o"," ","W","i","-","F","i"," ","i","n","t","e","r","f","a","c","e","s"," ","i","n","s","t","a","l","l","e","d">>)
             ELSE pc' = "setup" /\ UNCHANGED <<exitCode, stderr>>
    /\ UNCHANGED <<hasCurses, hasWifi, LINES, term, lineno, buf, screen, cycleVars, calls,
                   stopCause, exc, dashVars>>

\* setup()
Setup ==
    /\ pc = "setup"
    /\ term' = [term EXCEPT !.colors = TRUE, !.endwin = @ + 1,
                            !.nodelay = TRUE]
    /\ pc' = "getch"
    /\ UNCHANGED <<env, lineno, buf, screen, cycleVars, calls, stopCause,
                   exc, exitCode, stderr, dashVars>>

------------------------------------------------------------------------------
\* The loop of main()

\* if win.getch() == ord('q'): break; otherwise refresh_window() is called
\* and asks the stats source.  getch() refreshes the window first.
Getch ==
    /\ pc = "getch"
    /\ \E key \in Keys :
          IF key = ord_q
          THEN /\ LeaveLoop("none", "quit")
               /\ UNCHANGED cycleVars
          ELSE /\ cycles < MaxCycles
               /\ \E snap \in Snapshots :
                     /\ curSnap' = snap
                     /\ pending' = refresh_window(snap)
               /\ written' = << >>
               /\ startBuf' = buf
               /\ pc' = "render"
               /\ UNCHANGED <<prevSnap, prevLog, cycles, stopCause, exc,
                              exitCode, stderr>>
    /\ screen' = buf
    /\ calls' = [calls EXCEPT !.getch = @ + 1]
    /\ UNCHANGED <<env, term, lineno, buf, dashVars>>

\* One printl() call of refresh_window().
Printl ==
    /\ pc = "render"
    /\ pending # << >>
    /\ Head(pending).kind = "printl"
    /\ calls' = [calls EXCEPT !.printl = @ + 1,
                              !.refresh = IF AddstrFails(lineno, LINES)
                                          THEN @ + 1 ELSE @]
    /\ IF AddstrFails(lineno, LINES)
       THEN \* except curses.error: lineno = 0; win.refresh(); raise
            /\ lineno' = 0
            /\ screen' = buf
            /\ LeaveLoop("curses.error", "curses.error")
            /\ UNCHANGED <<buf, pending, written>>
       ELSE /\ buf' = Addstr(buf, lineno, Head(pending))
            /\ written' = Append(written, <<lineno, Head(pending)>>)
            /\ lineno' = NextLine(lineno)
            /\ pending' = Tail(pending)
            /\ UNCHANGED <<pc, screen, stopCause, exc, exitCode, stderr>>
    /\ UNCHANGED <<env, term, curSnap, startBuf, prevSnap, prevLog, cycles,
                   dashVars>>

\* psutil.net_io_counters(pernic=True)[ifname] or
\* psutil.net_if_addrs()[ifname] raises KeyError.
StatsKeyError ==
    /\ pc = "render"
    /\ pending # << >>
    /\ Head(pending).kind = "KeyError"
    /\ LeaveLoop("KeyError", "KeyError")
    /\ UNCHANGED <<env, term, lineno, buf, screen, cycleVars, calls,
                   dashVars>>

\* win.refresh(), the last statement of refresh_window()
WinRefresh ==
    /\ pc = "render"
    /\ pending # << >>
    /\ Head(pending).kind = "refresh"
    /\ screen' = buf
    /\ calls' = [calls EXCEPT !.refresh = @ + 1]
    /\ pending' = Tail(pending)
    /\ UNCHANGED <<pc, env, term, lineno, buf, written, curSnap, startBuf,
                   prevSnap, prevLog, cycles, stopCause, exc, exitCode,
                   stderr, dashVars>>

\* refresh_window() returns to main()
Return ==
    /\ pc = "render"
    /\ pending = << >>
    /\ pc' = "reset"
    /\ UNCHANGED <<env, term, lineno, buf, screen, cycleVars, calls,
                   stopCause, exc, exitCode, stderr, dashVars>>

\* lineno = 0: the cycle is complete
LinenoReset ==
    /\ pc = "reset"
    /\ lineno' = ResetLineno(lineno)
    /\ prevSnap' = curSnap
    /\ prevLog' = written
    /\ cycles' = cycles + 1
    /\ pc' = "sleep"
    /\ UNCHANGED <<env, term, buf, screen, pending, written, curSnap,
                   startBuf, calls, stopCause, exc, exitCode, stderr,
                   dashVars>>

\* time.sleep(INTERVAL)
Sleep ==
    /\ pc = "sleep"
    /\ pc' = "getch"
    /\ UNCHANGED <<env, term, lineno, buf, screen, cycleVars, calls,
                   stopCause, exc, exitCode, stderr, dashVars>>

InLoop == pc \in {"getch", "render", "reset", "sleep"}

\* SIGINT: KeyboardInterrupt is raised wherever the loop is, and the frame
\* of a running refresh_window() is abandoned as it stands.
KeyboardInterrupt ==
    /\ InLoop
    /\ LeaveLoop("KeyboardInterrupt", "interrupt")
    /\ UNCHANGED <<env, term, lineno, buf, screen, cycleVars, calls,
                   dashVars>>

\* finally: tear_down(); then main() returns or the exception goes on
TearDown ==
    /\ pc = "finally"
    /\ term' = [term EXCEPT !.keypad = FALSE, !.cbreak = FALSE,
                            !.echo = TRUE, !.endwin = @ + 1]
    /\ calls' = [calls EXCEPT !.tear_down = @ + 1]
    /\ pc' = "done"
    /\ exitCode' = ExitStatus(exc)
    /\ UNCHANGED <<env, lineno, buf, screen, cycleVars, stopCause, exc,
                   stderr, dashVars>>

Next ==
    \/ ImportCurses
    \/ Initscr
    \/ MainHasattr
    \/ MainIfaces
    \/ Setup
    \/ Getch
    \/ Printl
    \/ StatsKeyError
    \/ WinRefresh
    \/ Return
    \/ LinenoReset
    \/ Sleep
    \/ KeyboardInterrupt
    \/ TearDown

Spec == Init /\ [][Next]_vars

------------------------------------------------------------------------------
\* get_dashes() on its own: the argument is drawn, the function applied.

InitDashes ==
    /\ hasCurses = TRUE
    /\ hasWifi = TRUE
    /\ LINES = 24
    /\ InitCommon
    /\ pc = "get_dashes"
    /\ perc \in PercRange
    /\ bar = << >>

ApplyDashes ==
    /\ pc = "get_dashes"
    /\ bar' = get_dashes(perc)
    /\ pc' = "dashes_done"
    /\ UNCHANGED <<env, term, lineno, buf, screen, cycleVars, calls,
                   stopCause, exc, exitCode, stderr, perc>>

NextDashes == ApplyDashes

SpecDashes == InitDashes /\ [][NextDashes]_vars

------------------------------------------------------------------------------
\* Properties

\* setup() has returned, so the try block and its loop have been entered.
EnteredLoop == term.nodelay

Stopped == pc \in {"finally", "done"} /\ EnteredLoop

\* C1: once the loop has been entered, tear_down() runs exactly once, after
\* the loop has ended and never before, whichever way the loop ended (quit
\* key, KeyboardInterrupt, curses.error or another exception); no run that
\* entered the loop terminates without it.
C1_TearDownExactlyOnce ==
    /\ calls.tear_down <= 1
    /\ (InLoop => calls.tear_down = 0)
    /\ (calls.tear_down = 1 => stopCause # "none")
    /\ (pc = "done" /\ EnteredLoop =>
           /\ calls.tear_down = 1
           /\ stopCause \in {"quit", "interrupt", "curses.error", "KeyError"})

C1_Witness ==
    /\ pc = "done"
    /\ stopCause = "curses.error"
    /\ calls.tear_down = 1
    /\ cycles = 1

\* C2: every terminated run (of a platform that has curses, hence a screen
\* to acquire) has made exactly one curses.initscr() call and exactly one
\* curses.endwin() call, the runs that exit at startup included.
C2_AcquireReleasePaired ==
    (pc = "done" /\ hasCurses) => term.initscr = 1 /\ term.endwin = 1

\* C3: when psutil has no wifi_ifaces, or wifi_ifaces() reports no
\* interface to main(), the process ends with a message and a non-zero
\* status before setup() and before the loop: no getch, printl or
\* win.refresh call is ever made.
C3_StartupExit ==
    (hasCurses /\ (~hasWifi \/ startup = 0)) =>
        /\ pc \in {"import", "initscr", "main", "done"}
        /\ ~term.colors /\ ~term.nodelay
        /\ calls.getch = 0 /\ calls.printl = 0 /\ calls.refresh = 0
        /\ (pc = "done" => exitCode # 0 /\ stderr # << >>)
        /\ (startup = 0 => pc = "done")

C3_Witness ==
    /\ pc = "done"
    /\ startup = 0
    /\ exitCode = 1
    /\ stderr = <<"n","o"," ","W","i","-","F","i"," ","i","n","t","e","r","f","a","c","e","s"," ","i","n","s","t","a","l","l","e","d">>

\* C4: the quit key and KeyboardInterrupt end the loop the same way, in
\* whichever iteration: the loop stops, tear_down() runs exactly once, no
\* exception is left and the exit status is 0.
C4_QuitAndInterruptAlike ==
    stopCause \in {"quit", "interrupt"} =>
        /\ ~InLoop
        /\ exc = "none"
        /\ stderr = << >>
        /\ (pc = "done" => exitCode = 0 /\ calls.tear_down = 1)

C4_Witness ==
    /\ pc = "done"
    /\ stopCause = "interrupt"
    /\ cycles = 1
    /\ exitCode = 0

\* C5: when addstr() raises curses.error, printl() sets lineno to 0, calls
\* win.refresh() and re-raises; the error leaves refresh_window() and the
\* loop, no further cycle runs, tear_down() runs and the process ends with
\* the error, not with status 0.
C5_OverflowPropagates ==
    stopCause = "curses.error" =>
        /\ lineno = 0
        /\ screen = buf
        /\ calls.refresh = cycles + 1
        /\ pc \in {"finally", "done"}
        /\ exc = "curses.error"
        /\ (pc = "done" => exitCode # 0 /\ calls.tear_down = 1)

C5_Witness ==
    /\ pc = "done"
    /\ stopCause = "curses.error"
    /\ written # << >>
    /\ lineno = 0
    /\ exitCode = 1

\* C6: for every integer p in 0..100, get_dashes(p) returns floor(p/10 * 4)
\* "=" characters and spaces that bring the total to exactly 40.
C6_DashesFloorAndWidth ==
    pc = "dashes_done" =>
        LET filled == Len(bar[1])
            empty == Len(bar[2])
        IN  /\ 10 * filled <= 4 * perc
            /\ 4 * perc < 10 * (filled + 1)
            /\ filled + empty = 40
            /\ \A i \in 1..filled : bar[1][i] = "="
            /\ \A i \in 1..empty : bar[2][i] = " "

C6_Witness ==
    /\ pc = "dashes_done"
    /\ perc = 64
    /\ Len(bar[1]) = 25
    /\ Len(bar[2]) = 15

\* The cycle that just completed rendered the one interface "wlan0" with
\* quality 64, signal_percent 45, signal -65 and no failing stats call.
Wlan0Scenario ==
    /\ pc = "reset"
    /\ Len(curSnap) = 1
    /\ curSnap[1].name = <<"w","l","a","n","0">>
    /\ curSnap[1].quality_percent = 64
    /\ curSnap[1].signal_percent = 45
    /\ curSnap[1].signal = -65
    /\ curSnap[1].hasIoc /\ curSnap[1].hasAddrs

\* The lines 5 to 8 of the cycle: quality "64%" and a bar of q filled
\* characters in green, signal "45%" and a bar of s filled characters in red.
LevelsAre(q, s) ==
    /\ Len(written) >= 8
    /\ written[5][2].text = <<" "," "," "," ","L","i","n","k"," ","q","u","a","l","i","t","y",":"," ","6","4","%">>
    /\ written[6][2].text =
           <<" "," "," "," ","[">> \o Repeat("=", q) \o Repeat(" ", 40 - q) \o <<"]">>
    /\ written[6][2].color = "green"
    /\ Flags(written[6][2]).pair = colors_map.green
    /\ written[7][2].text = <<" "," "," "," ","S","i","g","n","a","l"," ","l","e","v","e","l",":"," ","-","6","5"," ","d","B","m"," ","(","4","5","%",")">>
    /\ written[8][2].text =
           <<" "," "," "," ","[">> \o Repeat("=", s) \o Repeat(" ", 40 - s) \o <<"]">>
    /\ written[8][2].color = "red"
    /\ Flags(written[8][2]).pair = colors_map.red

\* C7 as stated: in the wlan0 scenario the quality bar has 24 filled and 16
\* empty characters (green), the signal bar 18 filled and 22 empty (red).
C7_Bars24And18 == Wlan0Scenario => LevelsAre(24, 18)

\* C7 as amended: the quality bar has 25 filled and 15 empty characters
\* (green), the signal bar 18 filled and 22 empty (red).
C7_Bars25And18 == Wlan0Scenario => LevelsAre(25, 18)

C7_Witness == Wlan0Scenario /\ LevelsAre(25, 18)

\* The addstr() calls of the cycle were made at rows 0, 1, 2, ...
RowsInOrder == \A i \in 1..Len(written) : written[i][1] = i - 1

\* C8: every iteration starts with lineno = 0 and writes at rows 0, 1, 2,
\* ...; a completed cycle whose input equals that of the cycle before it
\* makes the same writes and leaves the buffer as that cycle left it.
C8_IdenticalCycles ==
    /\ (pc = "getch" => lineno = 0)
    /\ (pc \in {"render", "reset"} => RowsInOrder)
    /\ (pc = "reset" /\ cycles > 0 /\ curSnap = prevSnap =>
           written = prevLog /\ buf = startBuf)

C8_Witness ==
    /\ pc = "reset"
    /\ cycles > 0
    /\ curSnap = prevSnap
    /\ Len(written) > 20
    /\ written = prevLog
    /\ buf = startBuf

\* C9 as stated: neither the quit key nor an interrupt ends the loop while
\* a refresh_window() call has statements left to execute.
C9_RenderNeverCutShort ==
    (Stopped /\ stopCause \in {"quit", "interrupt"}) => pending = << >>

\* C9 as amended: the quit key is seen only by getch() at the top of an
\* iteration, so every refresh_window() call begun before it ran through
\* its final win.refresh(); a started call that is left unfinished was
\* ended by KeyboardInterrupt or by an error.
C9_QuitOnlyAtGetch ==
    /\ (stopCause = "quit" =>
           /\ pending = << >>
           /\ calls.refresh = cycles
           /\ calls.getch = cycles + 1
           /\ lineno = 0)
    /\ (Stopped /\ pending # << >> =>
           stopCause \in {"interrupt", "curses.error", "KeyError"})

C9_Witness ==
    /\ pc = "done"
    /\ stopCause = "quit"
    /\ cycles = 2
    /\ buf # EmptyBuf(LINES)

RECURSIVE LineCount(_)
\* 1 + the sum over the interfaces of (20 + number of address bindings)
LineCount(snap) ==
    IF snap = << >> THEN 1
    ELSE 20 + Len(Head(snap).addrs) + LineCount(Tail(snap))

\* C10: a completed cycle made exactly 1 + sum(20 + bindings) writes, at
\* rows 0..n-1, and left every row from n on as it was; while a cycle runs,
\* a row differs from what it held at the start only if the cycle wrote it.
C10_NothingErased ==
    /\ (pc = "reset" =>
           /\ Len(written) = LineCount(curSnap)
           /\ RowsInOrder
           /\ \A r \in 1..LINES :
                 r - 1 >= Len(written) => buf[r] = startBuf[r])
    /\ \A r \in 1..LINES :
          buf[r] # startBuf[r] =>
              \E i \in 1..Len(written) : written[i][1] = r - 1

C10_Witness ==
    /\ pc = "reset"
    /\ cycles > 0
    /\ Len(written) < Len(prevLog)
    /\ buf[Len(prevLog) - 1] # << >>
    /\ buf[Len(prevLog) - 1] = startBuf[Len(prevLog) - 1]
====
